---- MODULE Spec2Model ----
(***************************************************************************)
(* Road shape drawing of map-machine (src/map_machine/road.py): Lane,      *)
(* RoadPart, Intersection, Road, the connectors and Roads.                 *)
(*                                                                         *)
(* Numbers.  Every float of the program is held as an integer number of    *)
(* twentieths (Q = 20), so that 3.7 and the halves of the widths are       *)
(* exact: 3.7 is 74, 100 is 2000, the point (10, 0) is <<200, 0>>.  The    *)
(* zoom scale is a plain positive integer.                                 *)
(*                                                                         *)
(* Points are pairs <<x, y>>; NaNPoint is the undefined point.             *)
(* An Optional value is <<>> (None) or <<v>>.                              *)
(***************************************************************************)
EXTENDS Integers, Sequences, FiniteSets, TLC

VARIABLES
    \* Roads (the road network) and the drawing it emits
    scale,        \* flinger.get_scale(...)
    roads,        \* Roads.roads: sequence of Road records
    nodes,        \* Roads.nodes: node id -> sequence of <<road, index>>
    nodeOrder,    \* key order of the dict Roads.nodes (insertion order)
    calls,        \* primitives added to svg by the last draw()
    connectors,   \* connectors built by the last draw()
    lastOp,       \* "init", "append" or "draw"
    draws,        \* number of draw() calls so far
    \* Road.__init__
    ctorIn,       \* the arguments [tags, nodes, matcher]
    ctorOut,      \* the outcome of the constructor
    \* RoadPart
    part,         \* one RoadPart
    partOp,       \* the last operation on it: "new", "set", "update"
    \* Intersection
    parts,        \* Intersection.parts
    drawing,      \* elements added by the last Intersection.draw
    interOp,      \* "input", "built", "drawn"
    \* Lane
    lane,         \* one Lane
    laneScale,    \* the argument of the last get_width call, 0 before it
    laneOut       \* what the last get_width call returned, None before it

netVars   == <<scale, roads, nodes, nodeOrder, calls, connectors, lastOp, draws>>
ctorVars  == <<ctorIn, ctorOut>>
partVars  == <<part, partOp>>
interVars == <<parts, drawing, interOp>>
laneVars  == <<lane, laneScale, laneOut>>
vars      == <<netVars, ctorVars, partVars, interVars, laneVars>>

----------------------------------------------------------------------------
(* Bounds *)

MaxRoads == 3         \* roads appended to one network
MaxDraws == 2         \* draw() calls on one network
MaxParts == 3         \* segments of one intersection
MaxLaneScale == 6     \* scales 1..MaxLaneScale of a get_width call

----------------------------------------------------------------------------
(* Numbers and points *)

Q == 2 * 10

Fx(n) == n * Q

Abs(n) == IF n < 0 THEN -n ELSE n

Min(a, b) == IF a < b THEN a ELSE b

Max(a, b) == IF a > b THEN a ELSE b

None == <<>>

Some(v) == <<v>>

NaNPoint == <<>>

IsNaN(p) == p = NaNPoint

Add(p, q) == IF IsNaN(p) \/ IsNaN(q) THEN NaNPoint ELSE <<p[1] + q[1], p[2] + q[2]>>

Sub(p, q) == IF IsNaN(p) \/ IsNaN(q) THEN NaNPoint ELSE <<p[1] - q[1], p[2] - q[2]>>

Neg(p) == IF IsNaN(p) THEN NaNPoint ELSE <<-p[1], -p[2]>>

NormSq(p) == p[1] * p[1] + p[2] * p[2]

RECURSIVE SqrtBetween(_, _, _)
SqrtBetween(n, lo, hi) ==
    IF lo >= hi THEN lo
    ELSE LET mid == (lo + hi + 1) \div 2
         IN  IF mid * mid <= n THEN SqrtBetween(n, mid, hi)
             ELSE SqrtBetween(n, lo, mid - 1)

\* np.linalg.norm of a finite vector; exact on the axis-parallel vectors and
\* the multiples of (3, 4) that the inputs below are built from.
Norm(p) ==
    IF p[2] = 0 THEN Abs(p[1])
    ELSE IF p[1] = 0 THEN Abs(p[2])
    ELSE SqrtBetween(NormSq(p), 0, Abs(p[1]) + Abs(p[2]))

\* v * k / d, componentwise
MulDiv(p, k, d) == <<(p[1] * k) \div d, (p[2] * k) \div d>>

\* vector.norm: the vector scaled to length 1; here scaled to length k.
\* Dividing the zero vector by its norm 0 gives nan in numpy.
UnitTimes(p, k) ==
    IF IsNaN(p) THEN NaNPoint
    ELSE IF Norm(p) = 0 THEN NaNPoint
    ELSE MulDiv(p, k, Norm(p))

\* vector.turn_by_angle(v, pi / 2) and turn_by_angle(v, -pi / 2)
TurnLeft(p) == IF IsNaN(p) THEN NaNPoint ELSE <<-p[2], p[1]>>

TurnRight(p) == IF IsNaN(p) THEN NaNPoint ELSE <<p[2], -p[1]>>

RECURSIVE SeqSum(_)
SeqSum(s) == IF s = <<>> THEN 0 ELSE Head(s) + SeqSum(Tail(s))

RECURSIVE Flatten(_)
Flatten(ss) == IF ss = <<>> THEN <<>> ELSE Head(ss) \o Flatten(Tail(ss))

----------------------------------------------------------------------------
(* Tag values.  Tags map tag names to strings; the strings the model uses  *)
(* and what int(), float() and split("|") make of them.                    *)

IntStrings == {"1", "2", "3"}

FloatStrings == IntStrings \cup {"0", "6", "10", "2.5", "3.5"}

\* int(s): <<n>>, or None when int() raises ValueError ("2.5" is no int)
ParseInt(s) ==
    CASE s = "1" -> Some(1)
      [] s = "2" -> Some(2)
      [] s = "3" -> Some(3)
      [] s = "0" -> Some(0)
      [] s = "6" -> Some(6)
      [] s = "10" -> Some(10)
      [] OTHER -> None

\* float(s): <<value in twentieths>>, or None when float() raises ValueError
ParseFloat(s) ==
    CASE s = "2.5" -> Some(50)
      [] s = "3.5" -> Some(70)
      [] OTHER -> IF ParseInt(s) = None THEN None ELSE Some(Fx(ParseInt(s)[1]))

\* s.split("|")
Split(s) ==
    CASE s = "3|2.5" -> <<"3", "2.5">>
      [] s = "2.5|3" -> <<"2.5", "3">>
      [] s = "3|3|3" -> <<"3", "3", "3">>
      [] s = "3|wide" -> <<"3", "wide">>
      [] OTHER -> <<s>>

HasKey(tags, k) == k \in DOMAIN tags

NoTags == [k \in {} |-> ""]

----------------------------------------------------------------------------
(* Lane *)

LaneWidth == 74       \* 3.7

\* Lane(): a fresh lane object, width unset
NewLane == [width |-> None]

\* Lane.get_width with the standard width for every lane
get_width_standard(l, s) == LaneWidth * s

\* Lane.get_width
get_width(l, s) ==
    IF l.width = None THEN LaneWidth * s ELSE l.width[1] * s

----------------------------------------------------------------------------
(* RoadPart *)

Times(p, k) == IF IsNaN(p) THEN NaNPoint ELSE <<p[1] * k, p[2] * k>>

\* np.linalg.norm(u) > np.linalg.norm(v); a comparison with nan is False
NormGreater(u, v) ==
    IF IsNaN(u) \/ IsNaN(v) THEN FALSE ELSE NormSq(u) > NormSq(v)

\* np.linalg.norm(u) > limit, for a limit >= 0
NormExceeds(u, limit) ==
    IF IsNaN(u) THEN FALSE ELSE NormSq(u) > limit * limit

\* RoadPart.__init__; lanes is a sequence of Lane objects
RoadPart(point_1, point_2, lanes, s) ==
    LET width  == IF lanes # <<>>
                  THEN SeqSum([i \in 1..Len(lanes) |-> get_width(lanes[i], s)])
                  ELSE Fx(1)
        turned == UnitTimes(TurnLeft(Sub(point_2, point_1)), 1)
    IN  [ point_1          |-> point_1,
          point_2          |-> point_2,
          lanes            |-> lanes,
          width            |-> width,
          left_offset      |-> width \div 2,
          right_offset     |-> width \div 2,
          turned           |-> turned,
          right_vector     |-> Times(turned, width \div 2),
          left_vector      |-> Times(Neg(turned), width \div 2),
          right_connection |-> None,
          left_connection  |-> None,
          right_projection |-> None,
          left_projection  |-> None,
          left_outer       |-> None,
          right_outer      |-> None,
          point_a          |-> None,
          point_middle     |-> None ]

\* the projections moved on from where the last call left them
UpdateProjectionsMoving(p) ==
    LET from_l == IF p.right_projection # None THEN p.right_projection
                  ELSE p.left_connection
        p1 == IF p.left_connection # None
              THEN [p EXCEPT !.right_projection =
                       Some(Sub(Add(from_l[1], p.right_vector), p.left_vector))]
              ELSE p
        from_r == IF p1.left_projection # None THEN p1.left_projection
                  ELSE p1.right_connection
    IN  IF p1.right_connection # None
        THEN [p1 EXCEPT !.left_projection =
                 Some(Add(Sub(from_r[1], p1.right_vector), p1.left_vector))]
        ELSE p1

\* RoadPart.update, lines 103-110
UpdateProjections(p) ==
    LET p1 == IF p.left_connection # None
              THEN [p EXCEPT !.right_projection =
                       Some(Sub(Add(p.left_connection[1], p.right_vector), p.left_vector))]
              ELSE p
    IN  IF p1.right_connection # None
        THEN [p1 EXCEPT !.left_projection =
                 Some(Add(Sub(p1.right_connection[1], p1.right_vector), p1.left_vector))]
        ELSE p1

\* lines 115-123 choosing the nearer of the two points
ChooseOuterNearer(p) ==
    LET q == IF NormGreater(Sub(p.right_projection[1], p.point_1),
                            Sub(p.right_connection[1], p.point_1))
             THEN [p EXCEPT !.right_outer = p.right_connection,
                            !.left_outer = p.left_projection]
             ELSE [p EXCEPT !.right_outer = p.right_projection,
                            !.left_outer = p.left_connection]
    IN  [q EXCEPT !.point_middle = Some(Sub(q.right_outer[1], q.right_vector))]

\* RoadPart.update, lines 115-123
ChooseOuter(p) ==
    LET q == IF NormGreater(Sub(p.right_connection[1], p.point_1),
                            Sub(p.right_projection[1], p.point_1))
             THEN [p EXCEPT !.right_outer = p.right_connection,
                            !.left_outer = p.left_projection]
             ELSE [p EXCEPT !.right_outer = p.right_projection,
                            !.left_outer = p.left_connection]
    IN  [q EXCEPT !.point_middle = Some(Sub(q.right_outer[1], q.right_vector))]

max_ == 2000          \* max_: float = 100

\* lines 125-134 without the clipping branch
ClipAnchorNever(p) == [p EXCEPT !.point_a = p.point_middle]

\* RoadPart.update, lines 125-134
ClipAnchor(p) ==
    IF NormExceeds(Sub(p.point_middle[1], p.point_1), max_)
    THEN LET point_a == Add(p.point_1,
                            UnitTimes(Sub(p.point_middle[1], p.point_1), max_))
         IN  [p EXCEPT !.point_a = Some(point_a),
                       !.right_outer = Some(Add(point_a, p.right_vector)),
                       !.left_outer = Some(Add(point_a, p.left_vector))]
    ELSE [p EXCEPT !.point_a = p.point_middle]

\* RoadPart.update
update(p) ==
    LET q == UpdateProjections(p)
    IN  IF q.left_connection # None /\ q.right_connection # None
        THEN ClipAnchor(ChooseOuter(q))
        ELSE q

\* RoadPart.get_angle: compute_angle(point_2 - point_1), the angle between
\* the direction and the x axis, in degrees, for the directions of the model
get_angle(p) ==
    LET d == Sub(p.point_2, p.point_1)
    IN  CASE d[2] = 0 /\ d[1] > 0 -> 0
          [] d[1] = 0 /\ d[2] > 0 -> 90
          [] d[2] = 0 /\ d[1] < 0 -> 180
          [] d[1] = 0 /\ d[2] < 0 -> -90

----------------------------------------------------------------------------
(* Intersection *)

\* Line(start, end).get_intersection_point(Line(start_2, end_2)): the common
\* point of the two infinite lines, undefined when they are parallel
get_intersection_point(start, end, start_2, end_2) ==
    LET d1  == Sub(end, start)
        d2  == Sub(end_2, start_2)
        w   == Sub(start_2, start)
        det == d1[1] * d2[2] - d1[2] * d2[1]
        num == w[1] * d2[2] - w[2] * d2[1]
    IN  IF det = 0 THEN NaNPoint ELSE Add(start, MulDiv(d1, num, det))

NextIndex(ps, index) == IF index = Len(ps) THEN 1 ELSE index + 1

\* one round of the first loop that connects part_1 only
ConnectPairRightOnly(ps, index) ==
    LET next         == NextIndex(ps, index)
        part_1       == ps[index]
        part_2       == ps[next]
        intersection == get_intersection_point(
                            Add(part_1.point_1, part_1.right_vector),
                            Add(part_1.point_2, part_1.right_vector),
                            Add(part_2.point_1, part_2.left_vector),
                            Add(part_2.point_2, part_2.left_vector))
        ps1 == [ps  EXCEPT ![index].right_connection = Some(intersection)]
        ps3 == [ps1 EXCEPT ![index] = update(ps1[index])]
    IN  [ps3 EXCEPT ![next] = update(ps3[next])]

\* Intersection.__init__, lines 293-309: one round of the first loop
ConnectPair(ps, index) ==
    LET next         == NextIndex(ps, index)
        part_1       == ps[index]
        part_2       == ps[next]
        intersection == get_intersection_point(
                            Add(part_1.point_1, part_1.right_vector),
                            Add(part_1.point_2, part_1.right_vector),
                            Add(part_2.point_1, part_2.left_vector),
                            Add(part_2.point_2, part_2.left_vector))
        ps1 == [ps  EXCEPT ![index].right_connection = Some(intersection)]
        ps2 == [ps1 EXCEPT ![next].left_connection = Some(intersection)]
        ps3 == [ps2 EXCEPT ![index] = update(ps2[index])]
    IN  [ps3 EXCEPT ![next] = update(ps3[next])]

\* Intersection.__init__, lines 312-328: one round of the second loop
FallbackPair(ps, index) ==
    LET next == NextIndex(ps, index)
        ps1  == [ps  EXCEPT ![index] = update(ps[index])]
        ps2  == [ps1 EXCEPT ![next] = update(ps1[next])]
        ps3  == IF ps2[index].right_connection = None
                   /\ ps2[next].left_connection = None
                THEN LET a == [ps2 EXCEPT ![index].left_connection =
                                              ps2[index].right_projection]
                         b == [a EXCEPT ![next].right_connection =
                                            a[next].left_projection]
                         c == [b EXCEPT ![index].left_outer = b[index].right_projection]
                     IN  [c EXCEPT ![next].right_outer = c[next].left_projection]
                ELSE ps2
        ps4  == [ps3 EXCEPT ![index] = update(ps3[index])]
    IN  [ps4 EXCEPT ![next] = update(ps4[next])]

RECURSIVE ConnectLoop(_, _)
ConnectLoop(ps, index) ==
    IF index > Len(ps) THEN ps ELSE ConnectLoop(ConnectPair(ps, index), index + 1)

RECURSIVE FallbackLoop(_, _)
FallbackLoop(ps, index) ==
    IF index > Len(ps) THEN ps ELSE FallbackLoop(FallbackPair(ps, index), index + 1)

\* sorted(parts, key=lambda x: x.get_angle()): stable, ascending
RECURSIVE InsertByAngle(_, _)
InsertByAngle(ps, x) ==
    IF ps = <<>> THEN <<x>>
    ELSE IF get_angle(x) < get_angle(Head(ps)) THEN <<x>> \o ps
    ELSE <<Head(ps)>> \o InsertByAngle(Tail(ps), x)

RECURSIVE SortedByAngle(_)
SortedByAngle(ps) ==
    IF ps = <<>> THEN <<>>
    ELSE InsertByAngle(SortedByAngle(SubSeq(ps, 1, Len(ps) - 1)), ps[Len(ps)])

\* Intersection.__init__: self.parts
Intersection(ps) == FallbackLoop(ConnectLoop(SortedByAngle(ps), 1), 1)

\* commands[-1] = x
ReplaceLast(cmds, x) == [cmds EXCEPT ![Len(cmds)] = x]

\* lines 332-335 with the right connections for the left ones
inner_commands_right(ps) ==
    ReplaceLast(<<"M">> \o Flatten([k \in 1..Len(ps) |-> <<ps[k].right_connection, "L">>]),
                "Z")

\* Intersection.draw, lines 332-335: inner_commands.  A command list holds
\* the letters and, for each point, the value of the field (None or <<p>>).
inner_commands(ps) ==
    ReplaceLast(<<"M">> \o Flatten([k \in 1..Len(ps) |-> <<ps[k].left_connection, "L">>]),
                "Z")

\* Intersection.draw, lines 337-342
outer_commands(ps) ==
    ReplaceLast(<<"M">> \o Flatten([k \in 1..Len(ps) |->
                    << ps[k].left_connection, "L", ps[k].left_outer, "L",
                       ps[k].right_outer, "L" >>]),
                "Z")

Element(shape, d, fill) == [shape |-> shape, d |-> d, fill |-> fill]

\* RoadPart.draw_entrance(drawing, is_debug = False)
draw_entrance(p) ==
    IF p.left_connection # None /\ p.right_connection # None
    THEN << Element("path", << "M", p.right_projection, "L", p.right_connection,
                               "L", p.left_projection, "L", p.left_connection, "Z" >>,
                    "#88FF88") >>
    ELSE <<>>

\* RoadPart.draw_debug
draw_debug(p) ==
    << Element("path", <<"M", Some(p.point_1), "L", Some(p.point_2)>>, "none"),
       Element("path", << "M", Some(Add(p.point_1, p.right_vector)),
                          "L", Some(Add(p.point_2, p.right_vector)) >>, "none"),
       Element("path", << "M", Some(Add(p.point_1, p.left_vector)),
                          "L", Some(Add(p.point_2, p.left_vector)) >>, "none") >>
    \o (IF p.right_connection # None
        THEN <<Element("circle", <<p.right_connection>>, "#FF0000")>> ELSE <<>>)
    \o (IF p.left_connection # None
        THEN <<Element("circle", <<p.left_connection>>, "#0000FF")>> ELSE <<>>)
    \o (IF p.right_projection # None
        THEN <<Element("circle", <<p.right_projection>>, "#FF0000")>> ELSE <<>>)
    \o (IF p.left_projection # None
        THEN <<Element("circle", <<p.left_projection>>, "#0000FF")>> ELSE <<>>)
    \o (IF p.right_outer # None
        THEN <<Element("circle", <<p.right_outer>>, "none")>> ELSE <<>>)
    \o (IF p.left_outer # None
        THEN <<Element("circle", <<p.left_outer>>, "none")>> ELSE <<>>)
    \o (IF p.point_a # None
        THEN <<Element("circle", <<p.point_a>>, "#000000")>> ELSE <<>>)

\* Intersection.draw: the elements added to the drawing
IntersectionDraw(ps, is_debug) ==
    IF is_debug
    THEN << Element("path", outer_commands(ps), "#0000FF"),
            Element("path", inner_commands(ps), "#FF0000") >>
         \o Flatten([k \in 1..Len(ps) |-> draw_debug(ps[k])])
    ELSE Flatten([k \in 1..Len(ps) |-> draw_entrance(ps[k])])
         \o << Element("path", inner_commands(ps), "#FF8888") >>

----------------------------------------------------------------------------
(* Road.__init__.  A road holds its lanes as references into laneObjs, the *)
(* Lane objects the constructor allocated: [Lane()] * n is n references to *)
(* one object.                                                             *)

\* flinger.fling(node.coordinates): the plane point of each node id
NodePoint(id) ==
    CASE id = 1 -> <<Fx(0), Fx(0)>>
      [] id = 2 -> <<Fx(10), Fx(0)>>
      [] id = 3 -> <<Fx(20), Fx(0)>>
      [] id = 4 -> <<Fx(10), Fx(10)>>

\* lines 378-386
RoadStart(tags, nodeIds, matcher) ==
    [ raised   |-> FALSE,
      tags     |-> tags,
      nodes    |-> nodeIds,
      matcher  |-> matcher,
      line     |-> [i \in 1..Len(nodeIds) |-> NodePoint(nodeIds[i])],
      width    |-> matcher.default_width,
      lanes    |-> <<>>,
      laneObjs |-> <<>>,
      layer    |-> 0 ]

\* lines 388-393: the lanes tag
RoadLanesTag(r) ==
    IF ~HasKey(r.tags, "lanes") THEN r
    ELSE LET n == ParseInt(r.tags["lanes"])
         IN  IF n = None THEN r          \* except ValueError: pass
             ELSE [r EXCEPT !.width = n[1] * LaneWidth,
                            !.laneObjs = <<NewLane>>,
                            !.lanes = [i \in 1..n[1] |-> 1]]

\* lines 400-401: for index, lane in enumerate(self.lanes): lane.width = ...
RECURSIVE SetLaneWidths(_, _, _, _)
SetLaneWidths(objs, lanes, widths, index) ==
    IF index > Len(lanes) THEN objs
    ELSE SetLaneWidths([objs EXCEPT ![lanes[index]].width = Some(widths[index])],
                       lanes, widths, index + 1)

\* lines 395-401: the width:lanes tag; map(float, ...) is outside any try
RoadWidthLanesTag(r) ==
    IF r.raised \/ ~HasKey(r.tags, "width:lanes") THEN r
    ELSE LET strs == Split(r.tags["width:lanes"])
             vals == [i \in 1..Len(strs) |-> ParseFloat(strs[i])]
         IN  IF \E i \in 1..Len(strs) : vals[i] = None
             THEN [r EXCEPT !.raised = TRUE]
             ELSE IF Len(vals) = Len(r.lanes)
             THEN [r EXCEPT !.laneObjs = SetLaneWidths(r.laneObjs, r.lanes,
                                             [i \in 1..Len(vals) |-> vals[i][1]], 1)]
             ELSE r

\* lines 411-415: the width tag
RoadWidthTag(r) ==
    IF r.raised \/ ~HasKey(r.tags, "width") THEN r
    ELSE LET w == ParseFloat(r.tags["width"])
         IN  IF w = None THEN r          \* except ValueError: pass
             ELSE [r EXCEPT !.width = w[1]]

\* lines 417-419: the layer tag; float() is outside any try
RoadLayerTag(r) ==
    IF r.raised \/ ~HasKey(r.tags, "layer") THEN r
    ELSE LET l == ParseFloat(r.tags["layer"])
         IN  IF l = None THEN [r EXCEPT !.raised = TRUE]
             ELSE [r EXCEPT !.layer = l[1]]

\* Road.__init__; raised = TRUE when the constructor raised ValueError
\* (the fields then hold what it had assigned up to that point)
RoadInit(tags, nodeIds, matcher) ==
    RoadLayerTag(RoadWidthTag(RoadWidthLanesTag(RoadLanesTag(
        RoadStart(tags, nodeIds, matcher)))))

----------------------------------------------------------------------------
(* Polyline and the connectors *)

\* Polyline.shorten(index, length): the end point at index (0-based) moves
\* by length along the line towards its neighbour
shorten(line, index, length) ==
    LET i     == index + 1
        other == IF index = 0 THEN 2 ELSE Len(line) - 1
        diff  == Sub(line[other], line[i])
    IN  [line EXCEPT ![i] = Add(line[i], UnitTimes(diff, length))]

\* get_curve_points
get_curve_points(road, s, center, road_end) ==
    LET width == (road.width * s) \div 2
        diff  == Sub(road_end, center)
        left  == UnitTimes(TurnLeft(diff), width)
        right == UnitTimes(TurnRight(diff), width)
    IN  <<Add(road_end, left), Add(center, left), Add(center, right), Add(road_end, right)>>

\* Connector.__init__, lines 594-595
min_layer(rs, connected) == Min(rs[connected[1][1]].layer, rs[connected[2][1]].layer)

max_layer(rs, connected) == Max(rs[connected[1][1]].layer, rs[connected[2][1]].layer)

\* lines 800-804 with the two index conditions left out
IsSimpleByWidthOnly(road_1, index_1, road_2, index_2) ==
    road_1.width = road_2.width

\* Roads.draw, lines 800-804: TRUE for SimpleConnector, FALSE for ComplexConnector
IsSimple(road_1, index_1, road_2, index_2) ==
    \/ road_1.width = road_2.width
    \/ index_1 \notin {0, Len(road_1.nodes) - 1}
    \/ index_2 \notin {0, Len(road_2.nodes) - 1}

\* SimpleConnector.__init__: the connector built on the roads rs
SimpleConnector(rs, id, connected, s) ==
    [ kind      |-> "simple",
      node      |-> id,
      road_1    |-> connected[1][1],
      index_1   |-> connected[1][2],
      road_2    |-> connected[2][1],
      index_2   |-> connected[2][2],
      min_layer |-> min_layer(rs, connected),
      max_layer |-> max_layer(rs, connected),
      length    |-> 0,
      point     |-> NodePoint(rs[connected[1][1]].nodes[connected[1][2] + 1]),
      curve     |-> <<>>,
      before    |-> <<>>,
      after     |-> <<>> ]

\* line 662 without the scale
ShortenLengthUnscaled(road_1, road_2, s) == Abs(road_2.width - road_1.width)

\* ComplexConnector.__init__, line 662
ShortenLength(road_1, road_2, s) == Abs(road_2.width - road_1.width) * s

\* ComplexConnector.__init__, lines 662-664: the roads after both shorten calls
ShortenBoth(rs, connected, s) ==
    LET r1     == connected[1][1]
        r2     == connected[2][1]
        length == ShortenLength(rs[r1], rs[r2], s)
        rs1    == [rs EXCEPT ![r1].line = shorten(rs[r1].line, connected[1][2], length)]
    IN  [rs1 EXCEPT ![r2].line = shorten(rs1[r2].line, connected[2][2], length)]

\* ComplexConnector.__init__: rs0 are the roads when the constructor is
\* entered, rs the roads after its two shorten calls (lines 662-664); the
\* connector keeps the two polylines as they were before and after the calls
ComplexConnector(rs0, rs, id, connected, s) ==
    LET road_1   == rs[connected[1][1]]
        road_2   == rs[connected[2][1]]
        point    == NodePoint(road_1.nodes[connected[1][2] + 1])
        points_1 == get_curve_points(road_1, s, point, road_1.line[connected[1][2] + 1])
        points_2 == get_curve_points(road_2, s, point, road_2.line[connected[2][2] + 1])
    IN  [ kind      |-> "complex",
          node      |-> id,
          road_1    |-> connected[1][1],
          index_1   |-> connected[1][2],
          road_2    |-> connected[2][1],
          index_2   |-> connected[2][2],
          min_layer |-> min_layer(rs, connected),
          max_layer |-> max_layer(rs, connected),
          length    |-> ShortenLength(road_1, road_2, s),
          point     |-> point,
          curve     |-> << points_1[1], points_1[2], points_2[3], points_2[4],
                           points_2[1], points_2[2], points_1[3], points_1[4] >>,
          before    |-> <<rs0[connected[1][1]].line, rs0[connected[2][1]].line>>,
          after     |-> <<road_1.line, road_2.line>> ]

\* lines 795-809 with the multiway branch building a connector of the first
\* two pairs
NodeCaseMultiway(connected) ==
    IF Len(connected) <= 1 THEN "continue" ELSE "connector"

\* Roads.draw, lines 795-809: what the loop does with a node's adjacency list
NodeCase(connected) ==
    IF Len(connected) <= 1 THEN "continue"
    ELSE IF Len(connected) = 2 THEN "connector"
    ELSE "continue"

\* Roads.draw, lines 791-810: the loop over self.nodes from position k of
\* the key order, given the roads and the connectors built so far
RECURSIVE BuildConnectors(_, _, _, _, _, _)
BuildConnectors(rs, ns, order, s, k, built) ==
    IF k > Len(order) THEN [roads |-> rs, connectors |-> built]
    ELSE LET id        == order[k]
             connected == ns[id]
         IN  IF NodeCase(connected) = "continue"
             THEN BuildConnectors(rs, ns, order, s, k + 1, built)
             ELSE IF IsSimple(rs[connected[1][1]], connected[1][2],
                              rs[connected[2][1]], connected[2][2])
             THEN BuildConnectors(rs, ns, order, s, k + 1,
                      Append(built, SimpleConnector(rs, id, connected, s)))
             ELSE LET rs2 == ShortenBoth(rs, connected, s)
                  IN  BuildConnectors(rs2, ns, order, s, k + 1,
                          Append(built, ComplexConnector(rs, rs2, id, connected, s)))

\* Roads.draw, lines 812-818: layered_connectors[layer]; position c of
\* conns is appended under its min_layer and then under its max_layer
BucketEntries(c, conn, layer) ==
    (IF conn.min_layer = layer THEN <<c>> ELSE <<>>)
        \o (IF conn.max_layer = layer THEN <<c>> ELSE <<>>)

layered_connectors(conns, layer) ==
    Flatten([c \in 1..Len(conns) |-> BucketEntries(c, conns[c], layer)])

----------------------------------------------------------------------------
(* The primitives added to svg.  A call records the method that added it   *)
(* (op), the layer of the loop pass it was added in (<<layer>>, or None    *)
(* for a caption), the road and the connector (position in the connector   *)
(* list, 0 for none) it belongs to, and its geometry.                      *)

Call(op, pass, road, conn, shape, points, size) ==
    [ op |-> op, pass |-> pass, road |-> road, conn |-> conn,
      shape |-> shape, points |-> points, size |-> size ]

BorderWidth == 40     \* border_width = 2.0

\* Road.draw -> one path; stroke-width from Road.get_style, lines 425-455
RoadDraw(rs, r, s, layer, is_border) ==
    << Call(IF is_border THEN "road_border" ELSE "road_fill", Some(layer), r, 0,
            "path", rs[r].line,
            s * rs[r].width + (IF is_border THEN BorderWidth ELSE 0)) >>

\* Road.draw_lanes
RoadDrawLanes(rs, r, s, layer) ==
    IF Len(rs[r].lanes) < 2 THEN <<>>
    ELSE [ index \in 1..(Len(rs[r].lanes) - 1) |->
             Call("road_lanes", Some(layer), r, 0, "path", rs[r].line,
                  s * (-(rs[r].width \div 2)
                       + (index * rs[r].width) \div Len(rs[r].lanes))) ]

\* Road.draw_caption
RoadDrawCaption(rs, r) ==
    IF ~HasKey(rs[r].tags, "name") \/ rs[r].tags["name"] = "" THEN <<>>
    ELSE << Call("caption", None, r, 0, "path", rs[r].line, 0),
            Call("caption", None, r, 0, "text", <<>>, 0) >>

\* SimpleConnector.draw_border and ComplexConnector.draw_border
ConnectorDrawBorder(rs, conns, c, s, layer) ==
    IF conns[c].kind = "simple"
    THEN << Call("connector_border", Some(layer), conns[c].road_1, c, "circle",
                 <<conns[c].point>>,
                 (rs[conns[c].road_1].width * s) \div 2 + Fx(1)) >>
    ELSE << Call("connector_border", Some(layer), conns[c].road_1, c, "path",
                 conns[c].curve, BorderWidth) >>

\* SimpleConnector.draw and ComplexConnector.draw
ConnectorDraw(rs, conns, c, s, layer) ==
    IF conns[c].kind = "simple"
    THEN << Call("connector_fill", Some(layer), conns[c].road_1, c, "circle",
                 <<conns[c].point>>, (rs[conns[c].road_1].width * s) \div 2) >>
    ELSE << Call("connector_fill", Some(layer), conns[c].road_1, c, "circle",
                 <<rs[conns[c].road_1].line[conns[c].index_1 + 1]>>,
                 (rs[conns[c].road_1].width * s) \div 2),
            Call("connector_fill", Some(layer), conns[c].road_2, c, "circle",
                 <<rs[conns[c].road_2].line[conns[c].index_2 + 1]>>,
                 (rs[conns[c].road_2].width * s) \div 2),
            Call("connector_fill", Some(layer), conns[c].road_1, c, "path",
                 conns[c].curve, 0) >>

\* sorted(xs, key): stable insertion of x into the sorted sequence xs
RECURSIVE InsertByKey(_, _, _)
InsertByKey(xs, x, key) ==
    IF xs = <<>> THEN <<x>>
    ELSE IF key[x] < key[Head(xs)] THEN <<x>> \o xs
    ELSE <<Head(xs)>> \o InsertByKey(Tail(xs), x, key)

RECURSIVE SortedBy(_, _)
SortedBy(xs, key) ==
    IF xs = <<>> THEN <<>>
    ELSE InsertByKey(SortedBy(SubSeq(xs, 1, Len(xs) - 1), key), xs[Len(xs)], key)

\* the layers in descending order
RECURSIVE SortedSetDescending(_)
SortedSetDescending(S) ==
    IF S = {} THEN <<>>
    ELSE LET m == CHOOSE x \in S : \A y \in S : x >= y
         IN  <<m>> \o SortedSetDescending(S \ {m})

\* sorted(layered_roads.keys())
RECURSIVE SortedSet(_)
SortedSet(S) ==
    IF S = {} THEN <<>>
    ELSE LET m == CHOOSE x \in S : \A y \in S : x <= y
         IN  <<m>> \o SortedSet(S \ {m})

\* lines 821-823 without the sort by priority
LayerRoadsUnsorted(rs, layer) ==
    SelectSeq([r \in 1..Len(rs) |-> r], LAMBDA r : rs[r].layer = layer)

\* Roads.draw, lines 786-789 and 821-823: the roads of a layer by priority
LayerRoads(rs, layer) ==
    SortedBy(SelectSeq([r \in 1..Len(rs) |-> r], LAMBDA r : rs[r].layer = layer),
             [r \in 1..Len(rs) |-> rs[r].matcher.priority])

\* Roads.draw, line 833
DrawsBorderIn(conn, layer) == conn.min_layer = layer

\* the fill drawn in the pass of the lower layer
DrawsFillInMinLayer(conn, layer) == conn.min_layer = layer

\* Roads.draw, line 839
DrawsFillIn(conn, layer) == conn.max_layer = layer

\* Roads.draw, lines 821-843: one pass of the loop over the layers
DrawLayer(rs, conns, s, layer) ==
    LET sorted == LayerRoads(rs, layer)
        bucket == layered_connectors(conns, layer)
    IN  Flatten([i \in 1..Len(sorted) |-> RoadDraw(rs, sorted[i], s, layer, TRUE)])
        \o Flatten([i \in 1..Len(bucket) |->
                      IF DrawsBorderIn(conns[bucket[i]], layer)
                      THEN ConnectorDrawBorder(rs, conns, bucket[i], s, layer)
                      ELSE <<>>])
        \o Flatten([i \in 1..Len(sorted) |-> RoadDraw(rs, sorted[i], s, layer, FALSE)])
        \o Flatten([i \in 1..Len(bucket) |->
                      IF DrawsFillIn(conns[bucket[i]], layer)
                      THEN ConnectorDraw(rs, conns, bucket[i], s, layer)
                      ELSE <<>>])
        \o Flatten([i \in 1..Len(sorted) |-> RoadDrawLanes(rs, sorted[i], s, layer)])

\* Roads.draw, lines 820-847, on the roads and connectors of lines 786-818
DrawCalls(rs, conns, s, draw_captions) ==
    LET layers == SortedSet({rs[r].layer : r \in 1..Len(rs)})
    IN  Flatten([i \in 1..Len(layers) |-> DrawLayer(rs, conns, s, layers[i])])
        \o (IF draw_captions
            THEN Flatten([r \in 1..Len(rs) |-> RoadDrawCaption(rs, r)])
            ELSE <<>>)

----------------------------------------------------------------------------
(* Roads *)

Matchers ==
    { [priority |-> 1, default_width |-> Fx(6)],
      [priority |-> 2, default_width |-> Fx(10)] }

Matcher(p) == CHOOSE m \in Matchers : m.priority = p

\* The roads a network is built from: constructor arguments
RoadInputs ==
    { [tags |-> ("name" :> "A"), nodes |-> <<1, 2>>, matcher |-> Matcher(1)],
      [tags |-> NoTags, nodes |-> <<2, 3>>, matcher |-> Matcher(2)],
      [tags |-> ("layer" :> "1") @@ ("width" :> "10"), nodes |-> <<2, 3>>,
       matcher |-> Matcher(1)],
      [tags |-> ("width" :> "6") @@ ("name" :> ""), nodes |-> <<2, 4>>,
       matcher |-> Matcher(2)],
      [tags |-> ("lanes" :> "2"), nodes |-> <<1, 2, 3>>, matcher |-> Matcher(2)],
      [tags |-> ("layer" :> "1"), nodes |-> <<3, 2>>, matcher |-> Matcher(1)],
      [tags |-> ("lanes" :> "3") @@ ("layer" :> "1") @@ ("name" :> "B"),
       nodes |-> <<4, 2>>, matcher |-> Matcher(2)] }

\* the values of flinger.get_scale(...)
Scales == {1, 2}

NetIdle ==
    /\ scale = 1
    /\ roads = <<>>
    /\ nodes = <<>>
    /\ nodeOrder = <<>>
    /\ calls = <<>>
    /\ connectors = <<>>
    /\ lastOp = "init"
    /\ draws = 0

\* Roads.__init__
NetInit ==
    /\ scale \in Scales
    /\ roads = <<>>
    /\ nodes = <<>>
    /\ nodeOrder = <<>>
    /\ calls = <<>>
    /\ connectors = <<>>
    /\ lastOp = "init"
    /\ draws = 0

\* Roads.append entering positions counted from 1
RECURSIVE AppendNodesOneBased(_, _, _, _)
AppendNodesOneBased(ns, nodeIds, r, k) ==
    IF k > Len(nodeIds) THEN ns
    ELSE LET id == nodeIds[k]
             l  == IF id \in DOMAIN ns THEN ns[id] ELSE <<>>
         IN  AppendNodesOneBased((id :> Append(l, <<r, k>>)) @@ ns, nodeIds, r, k + 1)

\* Roads.append, lines 770-773: the adjacency after the nodes of road r
\* from position k on are entered
RECURSIVE AppendNodes(_, _, _, _)
AppendNodes(ns, nodeIds, r, k) ==
    IF k > Len(nodeIds) THEN ns
    ELSE LET id == nodeIds[k]
             l  == IF id \in DOMAIN ns THEN ns[id] ELSE <<>>
         IN  AppendNodes((id :> Append(l, <<r, k - 1>>)) @@ ns, nodeIds, r, k + 1)

RECURSIVE AppendOrder(_, _, _)
AppendOrder(order, nodeIds, k) ==
    IF k > Len(nodeIds) THEN order
    ELSE AppendOrder(IF \E i \in 1..Len(order) : order[i] = nodeIds[k]
                     THEN order ELSE Append(order, nodeIds[k]),
                     nodeIds, k + 1)

\* Roads.append(road)
RoadsAppend(road) ==
    /\ Len(roads) < MaxRoads
    /\ roads' = Append(roads, road)
    /\ nodes' = AppendNodes(nodes, road.nodes, Len(roads) + 1, 1)
    /\ nodeOrder' = AppendOrder(nodeOrder, road.nodes, 1)
    /\ lastOp' = "append"
    /\ UNCHANGED <<scale, calls, connectors, draws>>

AppendRoad ==
    /\ \E in \in RoadInputs :
          LET road == RoadInit(in.tags, in.nodes, in.matcher)
          IN  ~road.raised /\ RoadsAppend(road)
    /\ UNCHANGED <<ctorVars, partVars, interVars, laneVars>>

\* Roads.draw(svg, flinger, draw_captions)
RoadsDraw(draw_captions) ==
    /\ draws < MaxDraws
    /\ draws' = draws + 1
    /\ lastOp' = "draw"
    /\ IF roads = <<>>
       THEN /\ calls' = <<>>
            /\ connectors' = <<>>
            /\ roads' = roads
       ELSE LET built == BuildConnectors(roads, nodes, nodeOrder, scale, 1, <<>>)
            IN  /\ roads' = built.roads
                /\ connectors' = built.connectors
                /\ calls' = DrawCalls(built.roads, built.connectors, scale, draw_captions)
    /\ UNCHANGED <<scale, nodes, nodeOrder>>

Draw ==
    /\ \E draw_captions \in BOOLEAN : RoadsDraw(draw_captions)
    /\ UNCHANGED <<ctorVars, partVars, interVars, laneVars>>

----------------------------------------------------------------------------
(* The specification of the road network *)

CtorIdle == ctorIn = <<>> /\ ctorOut = <<>>

PartIdle == part = <<>> /\ partOp = "none"

InterIdle == parts = <<>> /\ drawing = <<>> /\ interOp = "none"

LaneIdle == lane = <<>> /\ laneScale = 0 /\ laneOut = <<>>

Init == NetInit /\ CtorIdle /\ PartIdle /\ InterIdle /\ LaneIdle

Next == AppendRoad \/ Draw

Spec == Init /\ [][Next]_vars

----------------------------------------------------------------------------
(* Properties of Roads.draw *)

Drawn == lastOp = "draw" /\ roads # <<>>

PairNodes == {id \in DOMAIN nodes : Len(nodes[id]) = 2}

IsEndIndex(r, index) == index = 0 \/ index = Len(roads[r].nodes) - 1

\* the connector variant as a function of the three conditions
ExpectedKind(widthsEqual, end_1, end_2) ==
    IF ~widthsEqual /\ end_1 /\ end_2 THEN "complex" ELSE "simple"

ConnectorsAt(id) == {c \in 1..Len(connectors) : connectors[c].node = id}

CallsWhere(Test(_)) == {i \in 1..Len(calls) : Test(calls[i])}

Dist(p, q) == IF IsNaN(p) \/ IsNaN(q) THEN -1 ELSE Norm(Sub(p, q))

\* C1: at a node with exactly two adjacent (road, index) pairs draw() builds
\* the width-preserving connector when the widths are equal or one of the two
\* indices is not a first-or-last index, and the width-transition connector
\* exactly when the widths differ and both indices are first-or-last
\* indices: the variant is a function of the three conditions.
C1_ConnectorChoice ==
    Drawn =>
        \A id \in PairNodes :
            LET r1 == nodes[id][1][1]
                i1 == nodes[id][1][2]
                r2 == nodes[id][2][1]
                i2 == nodes[id][2][2]
            IN  /\ ConnectorsAt(id) # {}
                /\ \A c \in ConnectorsAt(id) :
                      connectors[c].kind =
                          ExpectedKind(roads[r1].width = roads[r2].width,
                                       IsEndIndex(r1, i1), IsEndIndex(r2, i2))

C1_Witness ==
    /\ Drawn
    /\ \E c \in 1..Len(connectors) : connectors[c].kind = "complex"
    /\ \E c \in 1..Len(connectors) :
          /\ connectors[c].kind = "simple"
          /\ roads[connectors[c].road_1].width # roads[connectors[c].road_2].width

\* C2: a node with one adjacent pair and a node with three or more pairs get
\* no connector, a node with exactly two pairs gets exactly one: the number
\* of connectors built by one draw() is the number of nodes with two pairs.
C2_ConnectorCount ==
    Drawn =>
        /\ Len(connectors) = Cardinality(PairNodes)
        /\ \A id \in DOMAIN nodes :
              Cardinality(ConnectorsAt(id)) = IF Len(nodes[id]) = 2 THEN 1 ELSE 0

C2_Witness ==
    /\ Drawn
    /\ \E id \in DOMAIN nodes : Len(nodes[id]) = 1
    /\ \E id \in DOMAIN nodes : Len(nodes[id]) >= 3
    /\ PairNodes # {}
    /\ Len(connectors) >= 1

\* the position of a method in one pass of the loop over the layers
PhaseOf(op) ==
    CASE op = "road_border" -> 1
      [] op = "connector_border" -> 2
      [] op = "road_fill" -> 3
      [] op = "connector_fill" -> 4
      [] op = "road_lanes" -> 5
      [] op = "caption" -> 6

RoadCalls(r, op) == CallsWhere(LAMBDA call : call.op = op /\ call.road = r)

\* C3: draw() emits the layers in ascending order and, within a layer, the
\* road borders in ascending priority, the borders of the connectors whose
\* min_layer is the layer, the road fills in the same order, the fills of the
\* connectors whose max_layer is the layer, and the lane separators; no call
\* of a higher layer precedes a call of a lower layer and the captions come
\* after all layers.
C3_DrawOrder ==
    Drawn =>
        /\ \A i, j \in 1..Len(calls) :
              i < j =>
                  /\ calls[i].op = "caption" => calls[j].op = "caption"
                  /\ (calls[i].op # "caption" /\ calls[j].op # "caption") =>
                        /\ calls[i].pass[1] <= calls[j].pass[1]
                        /\ calls[i].pass = calls[j].pass =>
                              PhaseOf(calls[i].op) <= PhaseOf(calls[j].op)
                        /\ ( /\ calls[i].pass = calls[j].pass
                             /\ calls[i].op = calls[j].op
                             /\ calls[i].op \in {"road_border", "road_fill"} ) =>
                              roads[calls[i].road].matcher.priority
                                  <= roads[calls[j].road].matcher.priority
        /\ \A r \in 1..Len(roads) :
              /\ Cardinality(RoadCalls(r, "road_border")) = 1
              /\ Cardinality(RoadCalls(r, "road_fill")) = 1
              /\ \A i \in RoadCalls(r, "road_border") \cup RoadCalls(r, "road_fill")
                          \cup RoadCalls(r, "road_lanes") :
                    calls[i].pass = Some(roads[r].layer)
        /\ \A i \in 1..Len(calls) :
              /\ calls[i].op = "caption" => calls[i].pass = None
              /\ calls[i].op = "connector_border" =>
                    calls[i].pass = Some(connectors[calls[i].conn].min_layer)
              /\ calls[i].op = "connector_fill" =>
                    calls[i].pass = Some(connectors[calls[i].conn].max_layer)

C3_Witness ==
    /\ Drawn
    /\ \E i, j \in 1..Len(calls) :
          /\ calls[i].op # "caption" /\ calls[j].op # "caption"
          /\ calls[i].pass # calls[j].pass
    /\ \E i, j \in 1..Len(calls) :
          /\ i < j
          /\ calls[i].op = "road_border" /\ calls[j].op = "road_border"
          /\ calls[i].pass = calls[j].pass
          /\ calls[i].road > calls[j].road
    /\ \A op \in {"road_border", "connector_border", "road_fill", "connector_fill",
                  "road_lanes", "caption"} :
          \E i \in 1..Len(calls) : calls[i].op = op

\* the connectors joining a road of layer 0 and a road of layer 1
BridgeConnectors ==
    {c \in 1..Len(connectors) :
        connectors[c].min_layer = Fx(0) /\ connectors[c].max_layer = Fx(1)}

\* C4: for two roads sharing a node, one of layer 0 and one of layer 1, the
\* connector's border call comes strictly after the border calls of all roads
\* of layer 0 and strictly before the fill call of any road of layer 1.
C4_BridgeBorder ==
    Drawn =>
        \A c \in BridgeConnectors :
            LET borders == CallsWhere(LAMBDA call : call.op = "connector_border"
                                                    /\ call.conn = c)
            IN  /\ borders # {}
                /\ \A b \in borders :
                      \A i \in 1..Len(calls) :
                          /\ ( calls[i].op = "road_border"
                               /\ roads[calls[i].road].layer = Fx(0) ) => i < b
                          /\ ( calls[i].op = "road_fill"
                               /\ roads[calls[i].road].layer = Fx(1) ) => b < i

C4_Witness ==
    /\ Drawn
    /\ BridgeConnectors # {}
    /\ \E r1, r2 \in 1..Len(roads) :
          /\ r1 # r2
          /\ roads[r1].layer = Fx(0) /\ roads[r2].layer = Fx(0)
    /\ \E r \in 1..Len(roads) : roads[r].layer = Fx(1)

ConnectorCalls(c, op, shape) ==
    CallsWhere(LAMBDA call : call.op = op /\ call.conn = c /\ call.shape = shape)

\* the network of road A = [(0,0), (10,0)], width 6, and road B = [(10,0),
\* (20,0)], width 10, both of layer 0, at scale 1, drawn once
ExampleDrawn ==
    /\ Drawn
    /\ draws = 1
    /\ scale = 1
    /\ Len(roads) = 2
    /\ roads[1].nodes = <<1, 2>> /\ roads[1].width = Fx(6) /\ roads[1].layer = 0
    /\ roads[2].nodes = <<2, 3>> /\ roads[2].width = Fx(10) /\ roads[2].layer = 0

\* C5: in one draw() every connector has its border pass emitted exactly once
\* and its fill pass emitted exactly once, whether its two roads share a layer
\* or not; for the example network the drawing holds exactly one taper fill
\* path and exactly two end-cap circles, of radius 3 and 5.
C5_EachPassOnce ==
    Drawn =>
        /\ \A c \in 1..Len(connectors) :
              IF connectors[c].kind = "simple"
              THEN /\ Cardinality(ConnectorCalls(c, "connector_border", "circle")) = 1
                   /\ Cardinality(ConnectorCalls(c, "connector_fill", "circle")) = 1
              ELSE /\ Cardinality(ConnectorCalls(c, "connector_border", "path")) = 1
                   /\ Cardinality(ConnectorCalls(c, "connector_fill", "path")) = 1
                   /\ Cardinality(ConnectorCalls(c, "connector_fill", "circle")) = 2
        /\ ExampleDrawn =>
              /\ Cardinality(ConnectorCalls(1, "connector_fill", "path")) = 1
              /\ \E i, j \in ConnectorCalls(1, "connector_fill", "circle") :
                    /\ calls[i].size = Fx(3)
                    /\ calls[j].size = Fx(5)
                    /\ ConnectorCalls(1, "connector_fill", "circle") = {i, j}

NotCaption(call) == call.op # "caption"

\* C6: draw() is idempotent: a second draw() right after a draw(), with no
\* append in between, emits the same primitives and leaves every road's
\* polyline as the first draw() left it.
C6_DrawIdempotent ==
    [][ (lastOp = "draw" /\ lastOp' = "draw") =>
            /\ SelectSeq(calls', NotCaption) = SelectSeq(calls, NotCaption)
            /\ \A r \in 1..Len(roads) : roads'[r].line = roads[r].line ]_vars

\* the polyline moved at its end point index by length towards the
\* neighbouring point, every other point kept
ShortenedBy(before, after, index, length) ==
    LET i     == index + 1
        other == IF index = 0 THEN 2 ELSE Len(before) - 1
    IN  /\ Len(after) = Len(before)
        /\ Dist(after[i], before[i]) = length
        /\ Dist(after[i], before[other]) = Abs(Dist(before[i], before[other]) - length)
        /\ \A j \in 1..Len(before) : j # i => after[j] = before[j]

\* C7: building a width-transition connector for roads of widths w1 and w2 at
\* scale s shortens each of the two polylines at its junction end by exactly
\* |w2 - w1| * s and keeps their other points; in the example network the
\* junction end of A becomes x = 6 and that of B x = 14.
C7_ShortenedByWidthDifference ==
    Drawn =>
        /\ \A c \in 1..Len(connectors) :
              connectors[c].kind = "complex" =>
                  LET conn   == connectors[c]
                      length == Abs(roads[conn.road_2].width - roads[conn.road_1].width)
                                    * scale
                  IN  /\ ShortenedBy(conn.before[1], conn.after[1], conn.index_1, length)
                      /\ ShortenedBy(conn.before[2], conn.after[2], conn.index_2, length)
        /\ ExampleDrawn =>
              /\ roads[1].line = <<<<Fx(0), 0>>, <<Fx(6), 0>>>>
              /\ roads[2].line = <<<<Fx(14), 0>>, <<Fx(20), 0>>>>

C7_Witness ==
    /\ ExampleDrawn
    /\ Len(connectors) = 1
    /\ connectors[1].kind = "complex"
    /\ connectors[1].length = Fx(4)

----------------------------------------------------------------------------
(* The specification of Road.__init__ *)

\* tag values: None for an absent tag, <<string>> for a present one
LanesValues == {None, Some("2"), Some("3"), Some("2.5"), Some("many")}

WidthValues == {None, Some("6"), Some("2.5"), Some("wide")}

WidthLanesValues == {None, Some("3|2.5"), Some("3|3|3"), Some("3|wide"), Some("3.5")}

LayerValues == {None, Some("1")}

Tag(k, v) == IF v = None THEN NoTags ELSE k :> v[1]

CtorInit ==
    /\ \E l \in LanesValues, w \in WidthValues, wl \in WidthLanesValues,
          la \in LayerValues, m \in Matchers :
          ctorIn = [ tags    |-> Tag("lanes", l) @@ Tag("width", w)
                                   @@ Tag("width:lanes", wl) @@ Tag("layer", la),
                     nodes   |-> <<1, 2>>,
                     matcher |-> m ]
    /\ ctorOut = <<>>

\* Road(tags, nodes, matcher, flinger)
Construct ==
    /\ ctorOut = <<>>
    /\ ctorOut' = <<RoadInit(ctorIn.tags, ctorIn.nodes, ctorIn.matcher)>>
    /\ UNCHANGED <<ctorIn, netVars, partVars, interVars, laneVars>>

InitRoad == NetIdle /\ CtorInit /\ PartIdle /\ InterIdle /\ LaneIdle

NextRoad == Construct

SpecRoad == InitRoad /\ [][NextRoad]_vars

----------------------------------------------------------------------------
(* The specification of RoadPart *)

Directions == {<<1, 0>>, <<0, 1>>, <<-1, 0>>, <<0, -1>>}

PartLength == Fx(200)

PartLanes ==
    { <<>>,
      <<[width |-> None]>>,
      <<[width |-> Some(Fx(3))], [width |-> Some(50)]>> }

\* where a neighbour may put a connection, relative to the start of the
\* segment's own boundary line
Offsets ==
    { <<Fx(50), 0>>, <<Fx(100), 0>>, <<Fx(150), 0>>, <<0, -Fx(120)>>,
      <<Fx(90), Fx(120)>>, <<Fx(60), Fx(80)>>, <<-Fx(300), 0>>, <<-Fx(50), 0>> }

PartInit ==
    /\ \E d \in Directions, lanes \in PartLanes, s \in Scales :
          part = RoadPart(<<0, 0>>, Times(d, PartLength), lanes, s)
    /\ partOp = "new"

SetLeft ==
    /\ part.left_connection = None
    /\ \E m \in Offsets :
          part' = [part EXCEPT !.left_connection =
                      Some(Add(Add(part.point_1, part.left_vector), m))]
    /\ partOp' = "set"
    /\ UNCHANGED <<netVars, ctorVars, interVars, laneVars>>

SetRight ==
    /\ part.right_connection = None
    /\ \E m \in Offsets :
          part' = [part EXCEPT !.right_connection =
                      Some(Add(Add(part.point_1, part.right_vector), m))]
    /\ partOp' = "set"
    /\ UNCHANGED <<netVars, ctorVars, interVars, laneVars>>

\* part.update()
Update ==
    /\ part' = update(part)
    /\ partOp' = "update"
    /\ UNCHANGED <<netVars, ctorVars, interVars, laneVars>>

InitPart == NetIdle /\ CtorIdle /\ PartInit /\ InterIdle /\ LaneIdle

NextPart == SetLeft \/ SetRight \/ Update

SpecPart == InitPart /\ [][NextPart]_vars

----------------------------------------------------------------------------
(* The specification of Intersection *)

InterLanes == { <<>>, <<[width |-> Some(Fx(3))]>> }

InterParts ==
    { RoadPart(<<0, 0>>, Times(d, PartLength), lanes, 1) :
          d \in Directions, lanes \in InterLanes }

InterInit ==
    /\ \E n \in 1..MaxParts : parts \in [1..n -> InterParts]
    /\ drawing = <<>>
    /\ interOp = "input"

\* Intersection(parts)
Build ==
    /\ interOp = "input"
    /\ parts' = Intersection(parts)
    /\ interOp' = "built"
    /\ UNCHANGED <<drawing, netVars, ctorVars, partVars, laneVars>>

\* intersection.draw(drawing, is_debug)
DrawIntersection ==
    /\ interOp \in {"built", "drawn"}
    /\ \E is_debug \in BOOLEAN : drawing' = IntersectionDraw(parts, is_debug)
    /\ interOp' = "drawn"
    /\ UNCHANGED <<parts, netVars, ctorVars, partVars, laneVars>>

InitInter == NetIdle /\ CtorIdle /\ PartIdle /\ InterInit /\ LaneIdle

NextInter == Build \/ DrawIntersection

SpecInter == InitInter /\ [][NextInter]_vars

----------------------------------------------------------------------------
(* Properties of RoadPart.update, Road.__init__ and Intersection.draw *)

BothConnected == part.left_connection # None /\ part.right_connection # None

\* the anchor before clipping: the chosen right_outer minus right_vector
Candidate ==
    LET projection == Sub(Add(part.left_connection[1], part.right_vector),
                          part.left_vector)
        outer      == IF NormGreater(Sub(part.right_connection[1], part.point_1),
                                     Sub(projection, part.point_1))
                      THEN part.right_connection[1]
                      ELSE projection
    IN  Sub(outer, part.right_vector)

\* C8: after update() on a segment with both connections set, point_a lies at
\* distance at most 100 from point_1 and is the un-clipped candidate whenever
\* the candidate is at distance at most 100; when the candidate is farther,
\* right_outer = point_a + right_vector and left_outer = point_a + left_vector.
C8_AnchorClipped ==
    (partOp = "update" /\ BothConnected) =>
        /\ part.point_a # None
        /\ Dist(part.point_a[1], part.point_1) >= 0
        /\ Dist(part.point_a[1], part.point_1) <= Fx(100)
        /\ Dist(Candidate, part.point_1) <= Fx(100) => part.point_a[1] = Candidate
        /\ Dist(Candidate, part.point_1) > Fx(100) =>
              /\ part.right_outer = Some(Add(part.point_a[1], part.right_vector))
              /\ part.left_outer = Some(Add(part.point_a[1], part.left_vector))

C8_Witness ==
    /\ partOp = "update"
    /\ BothConnected
    /\ Dist(Candidate, part.point_1) > Fx(100)
    /\ part.point_a[1] # Candidate
    /\ Candidate[1] # 0 /\ Candidate[2] # 0
    /\ Dist(part.point_a[1], part.point_1) = Fx(100)

\* a tag whose value the constructor cannot convert to a number
Malformed(tags, k) ==
    /\ HasKey(tags, k)
    /\ CASE k = "lanes" -> ParseInt(tags[k]) = None
         [] k = "width" -> ParseFloat(tags[k]) = None
         [] k = "width:lanes" ->
                \E i \in 1..Len(Split(tags[k])) : ParseFloat(Split(tags[k])[i]) = None

Without(tags, keys) == [k \in (DOMAIN tags) \ keys |-> tags[k]]

\* C9: constructing a Road never raises on a malformed value of the tags
\* lanes, width or width:lanes; the value is ignored: the road has the width
\* and the lanes of the same construction without the malformed tags.
C9_MalformedIgnored ==
    ctorOut # <<>> =>
        LET road      == ctorOut[1]
            malformed == {k \in {"lanes", "width", "width:lanes"} :
                             Malformed(ctorIn.tags, k)}
            ignoring  == RoadInit(Without(ctorIn.tags, malformed), ctorIn.nodes,
                                  ctorIn.matcher)
        IN  /\ ~road.raised
            /\ road.width = ignoring.width
            /\ road.lanes = ignoring.lanes
            /\ road.laneObjs = ignoring.laneObjs

\* the inner fill polygon among the elements of the last draw
InnerElements ==
    {i \in 1..Len(drawing) :
        drawing[i].shape = "path" /\ drawing[i].fill \in {"#FF8888", "#FF0000"}}

\* C10: Intersection.draw of N >= 1 segments emits an inner fill polygon of
\* exactly N vertices, the k-th being the left_connection of the k-th segment
\* in ascending order of angle, and the path is closed.
C10_InnerPolygon ==
    interOp = "drawn" =>
        /\ Cardinality(InnerElements) = 1
        /\ \A k \in 1..(Len(parts) - 1) : get_angle(parts[k]) <= get_angle(parts[k + 1])
        /\ \A i \in InnerElements :
              LET d == drawing[i].d
              IN  /\ Len(d) = 2 * Len(parts) + 1
                  /\ d[1] = "M"
                  /\ d[Len(d)] = "Z"
                  /\ \A k \in 1..Len(parts) :
                        /\ parts[k].left_connection # None
                        /\ d[2 * k] = parts[k].left_connection
                        /\ k < Len(parts) => d[2 * k + 1] = "L"

C10_Witness ==
    /\ interOp = "drawn"
    /\ Len(parts) = 3
    /\ \A k \in 1..2 : get_angle(parts[k]) < get_angle(parts[k + 1])
    /\ \E j, k \in 1..3 :
          /\ parts[j].left_connection # Some(NaNPoint)
          /\ parts[k].left_connection # Some(NaNPoint)
          /\ parts[j].left_connection # parts[k].left_connection

----------------------------------------------------------------------------
(* The specification of Lane *)

\* the widths of a lane: unset, or a float (a tag value may be 0 or negative)
LaneWidths == {None} \cup {Some(w) : w \in {-Fx(1), 0, 1, 50, 70, LaneWidth, Fx(3), Fx(10)}}

\* Lane(width = ...)
LaneInit ==
    /\ \E w \in LaneWidths : lane = [width |-> w, is_forward |-> None]
    /\ laneScale = 0
    /\ laneOut = None

\* lane.set_forward(is_forward)
SetForward ==
    /\ \E is_forward \in BOOLEAN : lane' = [lane EXCEPT !.is_forward = Some(is_forward)]
    /\ UNCHANGED <<laneScale, laneOut, netVars, ctorVars, partVars, interVars>>

\* lane.get_width(scale)
GetWidth ==
    /\ \E s \in 1..MaxLaneScale :
          /\ laneScale' = s
          /\ laneOut' = Some(get_width(lane, s))
    /\ UNCHANGED <<lane, netVars, ctorVars, partVars, interVars>>

InitLane == NetIdle /\ CtorIdle /\ PartIdle /\ InterIdle /\ LaneInit

NextLane == SetForward \/ GetWidth

SpecLane == InitLane /\ [][NextLane]_vars

\* C11: get_width(scale) returns 3.7 * scale when the lane's width is unset
\* and width * scale otherwise, for every scale > 0; the result is positive
\* whenever scale > 0 and any set width is positive.
C11_LaneWidth ==
    laneOut # None =>
        /\ lane.width = None => laneOut[1] = 74 * laneScale
        /\ lane.width # None => laneOut[1] = lane.width[1] * laneScale
        /\ (laneScale > 0 /\ (lane.width # None => lane.width[1] > 0)) => laneOut[1] > 0

C11_Witness ==
    /\ laneOut # None
    /\ lane.width # None
    /\ lane.width[1] > 0
    /\ lane.width[1] # LaneWidth
    /\ laneScale > 1
    /\ laneOut[1] = lane.width[1] * laneScale

----------------------------------------------------------------------------
(* Properties of Roads.append *)

\* the pairs (road, index) of road r at node id, by index
PairsOf(r, id) ==
    SelectSeq([k \in 1..Len(roads[r].nodes) |-> <<r, k - 1>>],
              LAMBDA pr : roads[r].nodes[pr[2] + 1] = id)

\* the pairs of all roads at node id, by append order then index
PairsAt(id) == Flatten([r \in 1..Len(roads) |-> PairsOf(r, id)])

IsPrefix(a, b) == Len(a) <= Len(b) /\ SubSeq(b, 1, Len(a)) = a

Adjacency ==
    /\ DOMAIN nodes = UNION {{roads[r].nodes[k] : k \in 1..Len(roads[r].nodes)} :
                             r \in 1..Len(roads)}
    /\ \A id \in DOMAIN nodes : nodes[id] = PairsAt(id)

AppendKeeps ==
    lastOp' = "append" =>
        /\ Len(roads') = Len(roads) + 1
        /\ SubSeq(roads', 1, Len(roads)) = roads
        /\ DOMAIN nodes \subseteq DOMAIN nodes'
        /\ \A id \in DOMAIN nodes : IsPrefix(nodes[id], nodes'[id])

\* C12: after any sequence of append calls the roads list holds the appended
\* roads in append order and nodes[id] holds exactly the pairs (road, index)
\* with road.nodes[index] = id, ordered by append order then index; an append
\* keeps the roads and the pairs it finds, in place.
C12_Adjacency == [](Adjacency) /\ [][AppendKeeps]_vars

C12_Witness ==
    /\ lastOp = "append"
    /\ Len(roads) = 3
    /\ \E id \in DOMAIN nodes :
          /\ Len(nodes[id]) = 3
          /\ nodes[id][1][2] # nodes[id][2][2]
    /\ \E id \in DOMAIN nodes : Len(nodes[id]) = 1

----------------------------------------------------------------------------
(* Properties of Intersection.__init__ *)

\* every segment is connected on both sides, to its neighbours in the order
Chained(ps) ==
    \A i \in 1..Len(ps) :
        /\ ps[i].left_connection # None
        /\ ps[i].right_connection # None
        /\ ps[i].right_connection = ps[NextIndex(ps, i)].left_connection

\* the second loop reaches its branch in some round
RECURSIVE FallbackTaken(_, _)
FallbackTaken(ps, index) ==
    IF index > Len(ps) THEN FALSE
    ELSE \/ /\ ps[index].right_connection = None
            /\ ps[NextIndex(ps, index)].left_connection = None
         \/ FallbackTaken(FallbackPair(ps, index), index + 1)

\* C13: the constructor leaves every segment with both connections set, the
\* right connection of each equal to the left connection of the next in the
\* sorted order; the second loop never takes its branch and leaves the
\* segments as the first loop left them.
C13_AllConnected ==
    [][(interOp = "input" /\ interOp' = "built") =>
          LET first == ConnectLoop(SortedByAngle(parts), 1)
          IN  /\ Len(parts') = Len(parts)
              /\ Chained(parts')
              /\ ~FallbackTaken(first, 1)
              /\ parts' = first]_vars

C13_Witness ==
    /\ interOp = "built"
    /\ Len(parts) = 3
    /\ Chained(parts)
    /\ \E i \in 1..3 : ~IsNaN(parts[i].right_connection[1])
    /\ \E i \in 1..3 : IsNaN(parts[i].right_connection[1])

----------------------------------------------------------------------------
(* Properties of the connectors between layers *)

\* the connectors whose two roads differ in layer
SplitConnectors ==
    {c \in 1..Len(connectors) : connectors[c].min_layer < connectors[c].max_layer}

BorderCalls(c) == CallsWhere(LAMBDA call : call.op = "connector_border" /\ call.conn = c)

FillCalls(c) == CallsWhere(LAMBDA call : call.op = "connector_fill" /\ call.conn = c)

\* C14: a connector with min_layer < max_layer has its border emitted in the
\* pass of min_layer and its fill in the pass of max_layer: the fill comes
\* after every road fill of max_layer, after every call of every lower layer
\* and after the connector's own border, and never in the pass of min_layer.
C14_SplitConnector ==
    Drawn =>
        \A c \in SplitConnectors :
            /\ BorderCalls(c) # {}
            /\ FillCalls(c) # {}
            /\ \A b \in BorderCalls(c) : calls[b].pass = Some(connectors[c].min_layer)
            /\ \A f \in FillCalls(c) :
                  /\ calls[f].pass = Some(connectors[c].max_layer)
                  /\ calls[f].pass # Some(connectors[c].min_layer)
                  /\ \A b \in BorderCalls(c) : b < f
                  /\ \A i \in 1..Len(calls) :
                        /\ ( calls[i].op = "road_fill"
                             /\ calls[i].pass = Some(connectors[c].max_layer) ) => i < f
                        /\ ( calls[i].op # "caption"
                             /\ calls[i].pass[1] < connectors[c].max_layer ) => i < f

C14_Witness ==
    /\ Drawn
    /\ \E c \in SplitConnectors :
          /\ \E i \in 1..Len(calls) :
                /\ calls[i].op = "road_fill"
                /\ calls[i].pass = Some(connectors[c].min_layer)
          /\ \E i, j \in 1..Len(calls) :
                /\ i # j
                /\ calls[i].op = "road_fill" /\ calls[j].op = "road_fill"
                /\ calls[i].pass = Some(connectors[c].max_layer)
                /\ calls[j].pass = Some(connectors[c].max_layer)
          /\ \E b \in BorderCalls(c), f \in FillCalls(c) :
                \E i \in 1..Len(calls) : b < i /\ i < f /\ calls[i].op = "road_lanes"

----------------------------------------------------------------------------
(* Properties of the lane widths of Road.__init__ *)

\* the width of lane i of a road: Some(w), or None when unset
LaneWidthOf(road, i) == road.laneObjs[road.lanes[i]].width

\* the lanes tag is a valid integer and width:lanes lists numeric values
NumericLaneTags(tags) ==
    /\ HasKey(tags, "lanes")
    /\ ParseInt(tags["lanes"]) # None
    /\ HasKey(tags, "width:lanes")
    /\ ~Malformed(tags, "width:lanes")

\* C15: with a valid lanes tag n and k numeric values in width:lanes, lane i
\* has the i-th listed width for every i when k = n (lanes hold independent
\* widths), and every lane's width stays unset when k differs from n.
C15_LaneWidths ==
    (ctorOut # <<>> /\ NumericLaneTags(ctorIn.tags)) =>
        LET road == ctorOut[1]
            n    == ParseInt(ctorIn.tags["lanes"])[1]
            strs == Split(ctorIn.tags["width:lanes"])
        IN  /\ Len(road.lanes) = n
            /\ \A i \in 1..n :
                  LaneWidthOf(road, i) =
                      IF Len(strs) = n THEN ParseFloat(strs[i]) ELSE None

----------------------------------------------------------------------------
(* Properties of repeated RoadPart.update *)

\* the fields update() reads and the fields it computes
GivenFields(p) ==
    <<p.point_1, p.point_2, p.left_vector, p.right_vector,
      p.left_connection, p.right_connection>>

DerivedFields(p) ==
    <<p.left_projection, p.right_projection, p.left_outer, p.right_outer,
      p.point_middle, p.point_a>>

\* C16: update() is idempotent: whatever connections are set, an update()
\* right after an update() leaves the projections, the outer corners,
\* point_middle and point_a as the first left them; and update() never
\* modifies the end points, the vectors or the connections.
C16_UpdateIdempotent ==
    [][partOp' = "update" =>
          /\ GivenFields(part') = GivenFields(part)
          /\ partOp = "update" => DerivedFields(part') = DerivedFields(part)]_vars

C16_Witness ==
    /\ partOp = "update"
    /\ part.left_connection # None
    /\ part.right_connection # None
    /\ part.point_a # part.point_middle
    /\ part.left_outer # part.left_connection
    /\ part.left_outer # part.left_projection

----------------------------------------------------------------------------
(* Properties of the outer corners of RoadPart.update *)

\* right_connection is strictly farther from point_1 than right_projection
ConnectionFarther ==
    Dist(part.right_connection[1], part.point_1)
        > Dist(part.right_projection[1], part.point_1)

\* the farther of the two right points, and its partner on the left
ChosenRight == IF ConnectionFarther THEN part.right_connection ELSE part.right_projection

ChosenLeft == IF ConnectionFarther THEN part.left_projection ELSE part.left_connection

\* C17 as stated: after update() with both connections set, right_outer is
\* the farther of right_connection and right_projection (right_projection on
\* a tie), left_outer is its partner, and in every case right_outer -
\* right_vector = left_outer - left_vector = point_middle.
C17_OuterSymmetric ==
    (partOp = "update" /\ BothConnected) =>
        /\ part.right_outer = ChosenRight
        /\ part.left_outer = ChosenLeft
        /\ Sub(part.right_outer[1], part.right_vector) = part.point_middle[1]
        /\ Sub(part.left_outer[1], part.left_vector) = part.point_middle[1]

\* C17 amended: the farther point and its partner give point_middle; they are
\* the outer corners when point_middle is within 100 of point_1, and when it
\* is farther both corners sit symmetrically about the clipped point_a.
C17_OuterSymmetricUnclipped ==
    (partOp = "update" /\ BothConnected) =>
        /\ part.point_middle = Some(Sub(ChosenRight[1], part.right_vector))
        /\ part.point_middle = Some(Sub(ChosenLeft[1], part.left_vector))
        /\ Dist(part.point_middle[1], part.point_1) <= Fx(100) =>
              /\ part.right_outer = ChosenRight
              /\ part.left_outer = ChosenLeft
              /\ Sub(part.right_outer[1], part.right_vector) = part.point_middle[1]
              /\ Sub(part.left_outer[1], part.left_vector) = part.point_middle[1]
        /\ Dist(part.point_middle[1], part.point_1) > Fx(100) =>
              /\ Sub(part.right_outer[1], part.right_vector) = part.point_a[1]
              /\ Sub(part.left_outer[1], part.left_vector) = part.point_a[1]

C17_Witness ==
    /\ partOp = "update"
    /\ BothConnected
    /\ ConnectionFarther
    /\ Dist(part.point_middle[1], part.point_1) > Fx(100)
    /\ part.right_outer # part.right_connection
    /\ part.left_outer # part.left_projection

====
